---- MODULE Spec2Model ----
(***************************************************************************)
(* Model of main.py: the cold-email pipeline                               *)
(*   read_csv -> validate_row -> render_template -> send_email ->          *)
(*   write_log_row, driven by main().                                      *)
(*                                                                         *)
(* Text is a sequence of one-character strings.  The marker "Subject:" is  *)
(* kept as one symbol.  A template is a sequence of lines, a line is a     *)
(* sequence of tokens, a token is literal text or a {Field} placeholder.   *)
(***************************************************************************)
EXTENDS Integers, Sequences, FiniteSets, TLC

VARIABLES
    args,           \* parsed command line: send, resume, max_retries, csv
    env,            \* environment: GMAIL_USER, GMAIL_APP_PASS
    template,       \* template text in use (render_template's first argument)
    rows,           \* contacts as returned by read_csv
    row,            \* the contact being processed (render_template's second argument)
    pc,             \* position of main()
    total,          \* main: rows seen so far in this run
    counts,         \* main: sent_count, failed_count, skipped_count
    rendered,       \* outcome of render_template: (subject, body) or a raised KeyError
    log,            \* lines of the log file, in file order
    log_exists,     \* os.path.exists(log_path)
    rate_sleeps,    \* rate-limit sleeps of this run, by the index of the contact they follow
    exit_code,      \* process exit status, meaningful once pc = "exited"
    run,            \* which run of the pipeline this is (the log file persists across runs)
    first_log,      \* log content when the first run ended
    sp,             \* send_email: its parameters
    sPc,            \* send_email: position
    attempt,        \* send_email: local variable attempt
    connects,       \* send_email: SMTP connections opened in this call
    sleeps,         \* send_email: durations of the backoff sleeps of this call, in order
    outcomes,       \* send_email: what each connection attempt of this call did
    previews,       \* send_email: previews emitted in this call
    result          \* send_email: returned (success, message)

vars == <<args, env, template, rows, row, pc, total, counts, rendered, log,
          log_exists, rate_sleeps, exit_code, run, first_log,
          sp, sPc, attempt, connects, sleeps, outcomes, previews, result>>

mainVars == <<args, env, template, rows, row, pc, total, counts, rendered, log,
              log_exists, rate_sleeps, exit_code, run, first_log>>

sendVars == <<sp, sPc, attempt, connects, sleeps, outcomes, previews, result>>

----------------------------------------------------------------------------
(* Bounds *)

MaxRows == 3
MaxRetries == 3
MaxBackoff == 3
MaxRerunRows == 2

----------------------------------------------------------------------------
(* Text helpers *)

Whitespace == {" ", "\n"}

RECURSIVE LStrip(_)
LStrip(s) == IF s # <<>> /\ Head(s) \in Whitespace THEN LStrip(Tail(s)) ELSE s

RECURSIVE RStrip(_)
RStrip(s) ==
    IF s # <<>> /\ s[Len(s)] \in Whitespace THEN RStrip(SubSeq(s, 1, Len(s) - 1)) ELSE s

Strip(s) == RStrip(LStrip(s))

Lower(c) == IF c \in {"Subject:", "SUBJECT:"} THEN "subject:" ELSE c

\* row.get(field, "")
Get(r, field) == IF field \in DOMAIN r THEN r[field] ELSE <<>>

----------------------------------------------------------------------------
(* validate_row *)

RequiredFields == <<"SNo", "Name", "Email", "Title", "Company">>

\* EMAIL_REGEX = ^[^@]+@[^@]+\.[^@]+$
EmailRegexMatch(s) ==
    \E i \in 1..Len(s) : \E j \in 1..Len(s) :
        /\ s[i] = "@"
        /\ \A k \in 1..Len(s) : s[k] = "@" => k = i
        /\ i > 1
        /\ s[j] = "."
        /\ j > i + 1
        /\ j < Len(s)

MissingField(r, field) == field \notin DOMAIN r \/ Strip(r[field]) = <<>>

RECURSIVE FieldErrors(_, _)
FieldErrors(r, fields) ==
    IF fields = <<>> THEN <<>>
    ELSE (IF MissingField(r, Head(fields))
             THEN << <<"Missing required field", Head(fields)>> >>
             ELSE <<>>)
         \o FieldErrors(r, Tail(fields))

EmailErrors(r) ==
    LET email == Strip(Get(r, "Email"))
    IN  IF email = <<>> THEN << <<"Email is empty", "Email">> >>
        ELSE IF ~ EmailRegexMatch(email) THEN << <<"Invalid email address", "Email">> >>
        ELSE <<>>

\* the email syntax check left out
validate_row_NoSyntaxCheck(r, required_fields) ==
    [is_valid |-> FieldErrors(r, required_fields) = <<>>,
     errors |-> FieldErrors(r, required_fields)]

validate_row(r, required_fields) ==
    LET errors == FieldErrors(r, required_fields) \o EmailErrors(r)
    IN  [is_valid |-> errors = <<>>, errors |-> errors]

----------------------------------------------------------------------------
(* render_template *)

Lit(s) == [ph |-> FALSE, name |-> "", text |-> s]
Ph(f) == [ph |-> TRUE, name |-> f, text |-> <<>>]

DefaultedFields == {"Name", "Title", "Company", "SNo"}

\* safe_row: the row with Name, Title, Company, SNo defaulted to ""
SafeRow(r) ==
    [f \in DOMAIN r \cup DefaultedFields |-> IF f \in DOMAIN r THEN r[f] ELSE <<>>]

\* positions of the placeholders of a token sequence that the mapping does not define
MissingKeys(tokens, map) ==
    {k \in 1..Len(tokens) : tokens[k].ph /\ tokens[k].name \notin DOMAIN map}

\* the key str.format(**map) raises KeyError for: the first undefined placeholder
FirstMissing(tokens, map) ==
    tokens[CHOOSE k \in MissingKeys(tokens, map) :
               \A j \in MissingKeys(tokens, map) : k <= j].name

\* str.format_map with a mapping whose __missing__ returns ""
RECURSIVE FormatMap(_, _)
FormatMap(tokens, map) ==
    IF tokens = <<>> THEN <<>>
    ELSE (IF Head(tokens).ph THEN Get(map, Head(tokens).name) ELSE Head(tokens).text)
         \o FormatMap(Tail(tokens), map)

\* "\n".join(lines)
RECURSIVE JoinLines(_)
JoinLines(lines) ==
    IF lines = <<>> THEN <<>>
    ELSE IF Len(lines) = 1 THEN Head(lines)
    ELSE Head(lines) \o <<Lit(<<"\n">>)>> \o JoinLines(Tail(lines))

\* str.lstrip on template text: only literal text can be stripped
RECURSIVE LStripTokens(_)
LStripTokens(tokens) ==
    IF tokens = <<>> THEN <<>>
    ELSE IF Head(tokens).ph THEN tokens
    ELSE IF LStrip(Head(tokens).text) = <<>> THEN LStripTokens(Tail(tokens))
    ELSE <<Lit(LStrip(Head(tokens).text))>> \o Tail(tokens)

RECURSIVE RStripTokens(_)
RStripTokens(tokens) ==
    IF tokens = <<>> THEN <<>>
    ELSE LET last == tokens[Len(tokens)]
             init == SubSeq(tokens, 1, Len(tokens) - 1)
         IN  IF last.ph THEN tokens
             ELSE IF RStrip(last.text) = <<>> THEN RStripTokens(init)
             ELSE init \o <<Lit(RStrip(last.text))>>

\* lines[0].lower().startswith("subject:")
StartsWithSubject(lines) ==
    /\ lines # <<>>
    /\ lines[1] # <<>>
    /\ ~ lines[1][1].ph
    /\ lines[1][1].text # <<>>
    /\ Lower(lines[1][1].text[1]) = "subject:"

\* lines[0][len("subject:"):].strip()
SubjectLine(lines) ==
    LET first == lines[1][1]
        rest == Tail(first.text)
    IN  RStripTokens(LStripTokens(
            (IF rest = <<>> THEN <<>> ELSE <<Lit(rest)>>) \o Tail(lines[1])))

DefaultSubject(safe_row) ==
    <<"H", "i", " ">> \o Get(safe_row, "Name") \o <<" ", "-", " ", "O", "p">>

Raised(key) == [status |-> "KeyError", subject |-> <<>>, body |-> <<>>, missing |-> key]

Returned(subject, body) == [status |-> "ok", subject |-> subject, body |-> body, missing |-> ""]

render_template(tpl, r) ==
    LET safe_row == SafeRow(r)
        has_subject == StartsWithSubject(tpl)
        subject_line == IF has_subject THEN SubjectLine(tpl) ELSE <<>>
        body == IF has_subject THEN LStripTokens(JoinLines(Tail(tpl))) ELSE JoinLines(tpl)
        missing == MissingKeys(subject_line, safe_row)
    IN  IF has_subject /\ missing # {}
        THEN Raised(FirstMissing(subject_line, safe_row))
        ELSE Returned(IF has_subject THEN FormatMap(subject_line, safe_row)
                                     ELSE DefaultSubject(safe_row),
                      FormatMap(body, safe_row))

----------------------------------------------------------------------------
(* send_email *)

AttachmentStates == {"none", "missing", "readable", "unreadable"}

TransientErrors == {"SMTPException", "socket.error"}

OtherErrors == {"ValueError"}

\* what one connection attempt (connect, ehlo, starttls, login, send_message) can do
AttemptOutcomes == {"ok"} \cup TransientErrors \cup OtherErrors

Msg(text, n, detail) == [text |-> text, attempts |-> n, detail |-> detail]

NoResult == [success |-> FALSE, message |-> Msg("", 0, <<>>)]

Return(success, message) == [success |-> success, message |-> message]

RECURSIVE Pow(_, _)
Pow(b, n) == IF n = 0 THEN 1 ELSE b * Pow(b, n - 1)

\* a bare except: every error is retried
IsTransient_Any(o) == TRUE

\* except (smtplib.SMTPException, socket.error)
IsTransient(o) == o \in TransientErrors

\* off by one: one attempt too many
Exhausted_OffByOne(n, max_retries) == n > max_retries

\* if attempt >= max_retries, after attempt += 1
Exhausted(n, max_retries) == n >= max_retries

\* the exponent taken before attempt is incremented
BackoffDelay_StaleAttempt(retry_backoff, n) == Pow(retry_backoff, n - 1)

\* sleep_for = retry_backoff ** attempt
BackoffDelay(retry_backoff, n) == Pow(retry_backoff, n)

\* the existence check left out and the read never failing
AttachError_Unchecked(path) == ""

\* attach_file_to_message: the exception it raises, "" when it attaches the file
AttachError(path) ==
    IF path = "missing" THEN "FileNotFoundError"
    ELSE IF path = "unreadable" THEN "PermissionError"
    ELSE ""

\* builds the message and attaches the file when a path is given
SendAttach ==
    /\ sPc = "build"
    /\ IF sp.attachment_path # "none" /\ AttachError(sp.attachment_path) # ""
          THEN /\ result' = Return(FALSE, Msg("Attachment error", 0,
                                              << <<AttachError(sp.attachment_path)>> >>))
               /\ sPc' = "returned"
          ELSE /\ sPc' = "mode"
               /\ UNCHANGED result
    /\ UNCHANGED <<attempt, connects, sleeps, outcomes, previews, sp>>
    /\ UNCHANGED mainVars

\* if dry_run: log the preview and return
SendPreview ==
    /\ sPc = "mode"
    /\ sp.dry_run
    /\ previews' = previews + 1
    /\ result' = Return(TRUE, Msg("dry-run previewed", 0, <<>>))
    /\ sPc' = "returned"
    /\ UNCHANGED <<attempt, connects, sleeps, outcomes, sp>>
    /\ UNCHANGED mainVars

\* attempt = 0, first test of the while loop follows
SendLive ==
    /\ sPc = "mode"
    /\ ~ sp.dry_run
    /\ attempt' = 0
    /\ sPc' = "loop"
    /\ UNCHANGED <<connects, sleeps, outcomes, previews, result, sp>>
    /\ UNCHANGED mainVars

\* while attempt < max_retries ... return (False, "max retries reached")
SendLoop ==
    /\ sPc = "loop"
    /\ IF attempt < sp.max_retries
          THEN /\ sPc' = "connect"
               /\ UNCHANGED result
          ELSE /\ result' = Return(FALSE, Msg("max retries reached", 0, <<>>))
               /\ sPc' = "returned"
    /\ UNCHANGED <<attempt, connects, sleeps, outcomes, previews, sp>>
    /\ UNCHANGED mainVars

\* the try block and its two except clauses, up to the sleep
SendConnect(o) ==
    /\ sPc = "connect"
    /\ connects' = connects + 1
    /\ outcomes' = Append(outcomes, o)
    /\ IF o = "ok"
          THEN /\ result' = Return(TRUE, Msg("sent", 0, <<>>))
               /\ sPc' = "returned"
               /\ UNCHANGED attempt
          ELSE IF IsTransient(o)
          THEN /\ attempt' = attempt + 1
               /\ IF Exhausted(attempt + 1, sp.max_retries)
                     THEN /\ result' = Return(FALSE, Msg("smtp error after", attempt + 1, << <<o>> >>))
                          /\ sPc' = "returned"
                     ELSE /\ sPc' = "backoff"
                          /\ UNCHANGED result
          ELSE /\ result' = Return(FALSE, Msg("unexpected error", 0, << <<o>> >>))
               /\ sPc' = "returned"
               /\ UNCHANGED attempt
    /\ UNCHANGED <<sleeps, previews, sp>>
    /\ UNCHANGED mainVars

\* sleep_for = retry_backoff ** attempt; time.sleep(sleep_for)
SendBackoff ==
    /\ sPc = "backoff"
    /\ sleeps' = Append(sleeps, BackoffDelay(sp.retry_backoff, attempt))
    /\ sPc' = "loop"
    /\ UNCHANGED <<attempt, connects, outcomes, previews, result, sp>>
    /\ UNCHANGED mainVars

SendNext ==
    \/ SendAttach
    \/ SendPreview
    \/ SendLive
    \/ SendLoop
    \/ \E o \in AttemptOutcomes : SendConnect(o)
    \/ SendBackoff

----------------------------------------------------------------------------
(* write_log_row *)

LogHeader ==
    [kind |-> "header", SNo |-> <<"SNo">>, Name |-> <<"Name">>, Email |-> <<"Email">>,
     Company |-> <<"Company">>, Title |-> <<"Title">>, status |-> "status",
     message |-> Msg("message", 0, <<>>)]

\* the timestamp column is left out: the clock is not part of the model
LogRow(r, status, message) ==
    [kind |-> "row", SNo |-> Get(r, "SNo"), Name |-> Get(r, "Name"), Email |-> Get(r, "Email"),
     Company |-> Get(r, "Company"), Title |-> Get(r, "Title"), status |-> status,
     message |-> message]

\* the file opened with "w" instead of "a"
write_log_row_Truncating(content, exists, r, status, message) ==
    <<LogHeader, LogRow(r, status, message)>>

\* the file content after open(log_path, "a"), writeheader() if not exists, writerow(out)
write_log_row(content, exists, r, status, message) ==
    content \o (IF exists THEN <<>> ELSE <<LogHeader>>) \o <<LogRow(r, status, message)>>

----------------------------------------------------------------------------
(* Inputs *)

Unset == "<unset>"

CredValues == {Unset, "", "set"}

\* a test against None only
Truthy_NotNone(v) == v # Unset

\* not gmail_user: None and "" are falsy
Truthy(v) == v # Unset /\ v # ""

Digit == <<"1", "2", "3", "4", "5">>

GoodContact(i) ==
    [SNo |-> <<Digit[i]>>, Name |-> <<"n">>, Email |-> <<"a", "@", "b", ".", "c">>,
     Title |-> <<"t">>, Company |-> <<"c">>]

BlankEmailContact(i) == [GoodContact(i) EXCEPT !.Email = <<>>]

BadEmailContact(i) == [GoodContact(i) EXCEPT !.Email = <<"a", "@", "b">>]

ContactKinds == {"good", "blank_email", "bad_email"}

MkContact(kind, i) ==
    IF kind = "good" THEN GoodContact(i)
    ELSE IF kind = "blank_email" THEN BlankEmailContact(i)
    ELSE BadEmailContact(i)

\* the contact lists read_csv can return: values already stripped, in file order
ContactLists(max) ==
    UNION {{[i \in 1..n |-> MkContact(ks[i], i)] : ks \in [1..n -> ContactKinds]} : n \in 0..max}

CsvFiles(max) ==
    {[exists |-> FALSE, rows |-> <<>>]} \cup {[exists |-> TRUE, rows |-> l] : l \in ContactLists(max)}

\* load_template's built-in default, literals shortened
BuiltinTemplate ==
    << <<Lit(<<"Subject:", " ", "a", "t", " ">>), Ph("Company")>>,
       <<>>,
       <<Lit(<<"H", "i", " ">>), Ph("Name"), Lit(<<",">>)>>,
       <<Ph("Company"), Lit(<<" ">>), Ph("Title")>> >>

SubjectFooTemplate ==
    << <<Lit(<<"subject:", " ">>), Ph("Foo"), Lit(<<" ">>)>>,
       <<Lit(<<"H", "i", " ">>), Ph("Name")>> >>

BodyFooTemplate ==
    << <<Lit(<<"H", "i", " ">>), Ph("Foo"), Lit(<<" ">>), Ph("Name")>> >>

SubjectEmailTemplate ==
    << <<Lit(<<"SUBJECT:">>), Ph("Email"), Ph("Name")>>,
       <<Lit(<<" ">>)>>,
       <<Ph("Foo"), Ph("Company")>> >>

PlainTemplate ==
    << <<Lit(<<"s", "u", "b">>)>>, <<Ph("Name")>> >>

\* template files the run can be pointed at; a missing file gives the built-in template
TemplateFiles ==
    {[exists |-> FALSE, text |-> <<>>],
     [exists |-> TRUE, text |-> SubjectFooTemplate],
     [exists |-> TRUE, text |-> BodyFooTemplate]}

load_template(file) == IF file.exists THEN file.text ELSE BuiltinTemplate

NoRendered == Returned(<<>>, <<>>)

NoSendParams ==
    [attachment_path |-> "none", dry_run |-> TRUE, max_retries |-> 0, retry_backoff |-> 2]

NoArgs ==
    [send |-> FALSE, resume |-> "missing", max_retries |-> 0,
     csv |-> [exists |-> FALSE, rows |-> <<>>],
     template_file |-> [exists |-> FALSE, text |-> <<>>]]

NoEnv == [GMAIL_USER |-> Unset, GMAIL_APP_PASS |-> Unset]

NoCounts == [sent |-> 0, failed |-> 0, skipped |-> 0]

SendIdle ==
    /\ sp = NoSendParams
    /\ sPc = "idle"
    /\ attempt = 0
    /\ connects = 0
    /\ sleeps = <<>>
    /\ outcomes = <<>>
    /\ previews = 0
    /\ result = NoResult

MainIdle ==
    /\ args = NoArgs
    /\ env = NoEnv
    /\ rows = <<>>
    /\ total = 0
    /\ counts = NoCounts
    /\ log = <<>>
    /\ log_exists = FALSE
    /\ rate_sleeps = <<>>
    /\ exit_code = 0
    /\ run = 1
    /\ first_log = <<>>

----------------------------------------------------------------------------
(* main *)

\* credentials from the environment; --send without them exits with status 1
CheckCredentials ==
    /\ pc = "start"
    /\ IF args.send /\ (~ Truthy(env.GMAIL_USER) \/ ~ Truthy(env.GMAIL_APP_PASS))
          THEN /\ pc' = "exited"
               /\ exit_code' = 1
          ELSE /\ pc' = "read"
               /\ UNCHANGED exit_code
    /\ UNCHANGED <<args, env, template, rows, row, total, counts, rendered, log,
                   log_exists, rate_sleeps, run, first_log>>
    /\ UNCHANGED sendVars

\* load_template, read_csv (exit 1 when it raises), counters set to 0
ReadInputs ==
    /\ pc = "read"
    /\ template' = load_template(args.template_file)
    /\ IF args.csv.exists
          THEN /\ rows' = args.csv.rows
               /\ pc' = "loop"
               /\ UNCHANGED exit_code
          ELSE /\ pc' = "exited"
               /\ exit_code' = 1
               /\ UNCHANGED rows
    /\ total' = 0
    /\ counts' = NoCounts
    /\ UNCHANGED <<args, env, row, rendered, log, log_exists, rate_sleeps, run, first_log>>
    /\ UNCHANGED sendVars

\* for raw_row in rows: total += 1, validate_row; an invalid row is logged and skipped
NextRow ==
    /\ pc = "loop"
    /\ total < Len(rows)
    /\ total' = total + 1
    /\ row' = rows[total + 1]
    /\ LET v == validate_row(rows[total + 1], RequiredFields)
       IN  IF ~ v.is_valid
              THEN /\ counts' = [counts EXCEPT !.skipped = @ + 1]
                   /\ log' = write_log_row(log, log_exists, rows[total + 1], "skipped",
                                           Msg("", 0, v.errors))
                   /\ log_exists' = TRUE
                   /\ pc' = "loop"
              ELSE /\ pc' = "render"
                   /\ UNCHANGED <<counts, log, log_exists>>
    /\ UNCHANGED <<args, env, template, rows, rendered, rate_sleeps, exit_code, run, first_log>>
    /\ UNCHANGED sendVars

\* subject, body = render_template(template_text, row); a KeyError is not caught
Render ==
    /\ pc = "render"
    /\ rendered' = render_template(template, row)
    /\ IF render_template(template, row).status = "ok"
          THEN /\ pc' = "send"
               /\ UNCHANGED exit_code
          ELSE /\ pc' = "exited"
               /\ exit_code' = 1
    /\ UNCHANGED <<args, env, template, rows, row, total, counts, log, log_exists,
                   rate_sleeps, run, first_log>>
    /\ UNCHANGED sendVars

\* attachment_path=args.resume if os.path.exists(args.resume) else None
AttachmentArg(resume) == IF resume = "missing" THEN "none" ELSE resume

\* the call of send_email
CallSend ==
    /\ pc = "send"
    /\ sp' = [attachment_path |-> AttachmentArg(args.resume),
              dry_run |-> ~ args.send,
              max_retries |-> args.max_retries,
              retry_backoff |-> 2]
    /\ sPc' = "build"
    /\ attempt' = 0
    /\ connects' = 0
    /\ sleeps' = <<>>
    /\ outcomes' = <<>>
    /\ previews' = 0
    /\ result' = NoResult
    /\ pc' = "sending"
    /\ UNCHANGED <<args, env, template, rows, row, total, counts, rendered, log,
                   log_exists, rate_sleeps, exit_code, run, first_log>>

\* status written for what send_email returned
OutcomeStatus(success, send) ==
    IF success THEN (IF send THEN "sent" ELSE "previewed") ELSE "failed"

\* send_email has returned: count and log the outcome
LogOutcome ==
    /\ pc = "sending"
    /\ sPc = "returned"
    /\ counts' = IF result.success
                    THEN (IF args.send THEN [counts EXCEPT !.sent = @ + 1] ELSE counts)
                    ELSE [counts EXCEPT !.failed = @ + 1]
    /\ log' = write_log_row(log, log_exists, row,
                            OutcomeStatus(result.success, args.send), result.message)
    /\ log_exists' = TRUE
    /\ pc' = "rate"
    /\ sp' = NoSendParams
    /\ sPc' = "idle"
    /\ attempt' = 0
    /\ connects' = 0
    /\ sleeps' = <<>>
    /\ outcomes' = <<>>
    /\ previews' = 0
    /\ result' = NoResult
    /\ UNCHANGED <<args, env, template, rows, row, total, rendered, rate_sleeps,
                   exit_code, run, first_log>>

\* sleeping after the last contact too
SleepsAfter_Always(n, len) == n <= len

\* if total < len(rows): time.sleep(interval)
SleepsAfter(n, len) == n < len

RateLimit ==
    /\ pc = "rate"
    /\ rate_sleeps' = IF SleepsAfter(total, Len(rows)) THEN Append(rate_sleeps, total)
                                                       ELSE rate_sleeps
    /\ pc' = "loop"
    /\ UNCHANGED <<args, env, template, rows, row, total, counts, rendered, log,
                   log_exists, exit_code, run, first_log>>
    /\ UNCHANGED sendVars

\* the loop is over: the summary is logged and main returns
Summary ==
    /\ pc = "loop"
    /\ total >= Len(rows)
    /\ pc' = "exited"
    /\ exit_code' = 0
    /\ UNCHANGED <<args, env, template, rows, row, total, counts, rendered, log,
                   log_exists, rate_sleeps, run, first_log>>
    /\ UNCHANGED sendVars

\* the same command is run again: same arguments, environment and files, same log path
Rerun ==
    /\ pc = "exited"
    /\ run = 1
    /\ run' = 2
    /\ first_log' = log
    /\ pc' = "start"
    /\ total' = 0
    /\ counts' = NoCounts
    /\ rows' = <<>>
    /\ template' = <<>>
    /\ row' = GoodContact(1)
    /\ rendered' = NoRendered
    /\ rate_sleeps' = <<>>
    /\ exit_code' = 0
    /\ UNCHANGED <<args, env, log, log_exists>>
    /\ UNCHANGED sendVars

----------------------------------------------------------------------------
(* The pipeline *)

InitRows(max) ==
    /\ args \in [send : BOOLEAN, resume : {"missing", "readable", "unreadable"},
                 max_retries : 0..MaxRetries, csv : CsvFiles(max),
                 template_file : TemplateFiles]
    /\ env \in [GMAIL_USER : CredValues, GMAIL_APP_PASS : CredValues]
    /\ template = <<>>
    /\ rows = <<>>
    /\ row = GoodContact(1)
    /\ pc = "start"
    /\ total = 0
    /\ counts = NoCounts
    /\ rendered = NoRendered
    /\ log = <<>>
    /\ log_exists \in BOOLEAN
    /\ rate_sleeps = <<>>
    /\ exit_code = 0
    /\ run = 1
    /\ first_log = <<>>
    /\ SendIdle

Init == InitRows(MaxRows)

Next ==
    \/ CheckCredentials
    \/ ReadInputs
    \/ NextRow
    \/ Render
    \/ CallSend
    \/ SendAttach
    \/ SendPreview
    \/ SendLive
    \/ SendLoop
    \/ \E o \in AttemptOutcomes : SendConnect(o)
    \/ SendBackoff
    \/ LogOutcome
    \/ RateLimit
    \/ Summary

Spec == Init /\ [][Next]_vars

----------------------------------------------------------------------------
(* The pipeline run twice against the same log path *)

InitTwice == InitRows(MaxRerunRows)

NextTwice ==
    \/ Next
    \/ Rerun

SpecTwice == InitTwice /\ [][NextTwice]_vars

----------------------------------------------------------------------------
(* send_email called on its own *)

InitSend ==
    /\ MainIdle
    /\ template = <<>>
    /\ row = GoodContact(1)
    /\ rendered = NoRendered
    /\ pc = "send_email"
    /\ sp \in [attachment_path : AttachmentStates, dry_run : BOOLEAN,
               max_retries : 0..MaxRetries, retry_backoff : 1..MaxBackoff]
    /\ sPc = "build"
    /\ attempt = 0
    /\ connects = 0
    /\ sleeps = <<>>
    /\ outcomes = <<>>
    /\ previews = 0
    /\ result = NoResult

SpecSend == InitSend /\ [][SendNext]_vars

----------------------------------------------------------------------------
(* render_template called on its own *)

RenderTemplates ==
    {BuiltinTemplate, SubjectFooTemplate, BodyFooTemplate, SubjectEmailTemplate,
     PlainTemplate, <<>>}

RenderFields == {"Name", "Company", "Email", "Foo"}

RenderValues == {<<>>, <<"x">>}

RenderRows == UNION {[fs -> RenderValues] : fs \in SUBSET RenderFields}

InitRender ==
    /\ MainIdle
    /\ SendIdle
    /\ template \in RenderTemplates
    /\ row \in RenderRows
    /\ rendered = NoRendered
    /\ pc = "render_template"

RenderCall ==
    /\ pc = "render_template"
    /\ rendered' = render_template(template, row)
    /\ pc' = "rendered"
    /\ UNCHANGED <<args, env, template, rows, row, total, counts, log, log_exists,
                   rate_sleeps, exit_code, run, first_log>>
    /\ UNCHANGED sendVars

SpecRender == InitRender /\ [][RenderCall]_vars

----------------------------------------------------------------------------
(* Fairness: the interpreter keeps executing send_email until it returns *)

SpecSendFair == InitSend /\ [][SendNext]_vars /\ WF_vars(SendNext)

----------------------------------------------------------------------------
(* Properties *)

Live == sPc # "idle" /\ ~ sp.dry_run

LastOutcome == outcomes[Len(outcomes)]

\* the attempts so far: k transient failures, then a success
FailedThenOk(k) ==
    /\ Len(outcomes) = k + 1
    /\ outcomes[k + 1] = "ok"
    /\ \A i \in 1..k : outcomes[i] \in {"SMTPException", "socket.error"}

RECURSIVE Power(_, _)
Power(b, n) == IF n = 0 THEN 1 ELSE b * Power(b, n - 1)

C1_State ==
    \A k \in 0..MaxRetries :
        (Live /\ FailedThenOk(k)) =>
            /\ k < sp.max_retries
            /\ sPc = "returned"
            /\ result.success
            /\ result.message.text = "sent"
            /\ connects = k + 1
            /\ Len(sleeps) = k
            /\ \A i \in 1..k : sleeps[i] = Power(sp.retry_backoff, i)
            /\ sp.retry_backoff = 2 => \A i \in 1..k : \A j \in 1..k : i < j => sleeps[i] < sleeps[j]

C1_Step ==
    (outcomes # <<>> /\ LastOutcome = "ok") =>
        (connects' = connects /\ sleeps' = sleeps /\ outcomes' = outcomes /\ result' = result)

\* C1: in live mode, k transient failures followed by a success (k < max_retries)
\* give success after exactly k+1 connection attempts and k sleeps, the i-th
\* lasting retry_backoff ** i (strictly increasing for factor 2), and nothing
\* is attempted or slept after the successful attempt.
C1_RetryThenSuccess == [] C1_State /\ [][C1_Step]_vars

C1_Witness ==
    /\ sPc = "returned"
    /\ ~ sp.dry_run
    /\ sp.max_retries = 3
    /\ sp.retry_backoff = 2
    /\ FailedThenOk(2)
    /\ result.success
    /\ sleeps = <<2, 4>>

C2_DryRunNoNetwork == (sPc # "idle" /\ sp.dry_run) => connects = 0

C2_MissingFails ==
    (sPc = "returned" /\ sp.attachment_path = "missing") =>
        /\ ~ result.success
        /\ result.message.text = "Attachment error"
        /\ previews = 0
        /\ connects = 0

\* C2 as stated: a dry run opens no connection and succeeds whenever the
\* attachment path is absent or names an existing file; a missing attachment
\* fails with an attachment error before any preview or network activity.
C2_Original ==
    /\ C2_DryRunNoNetwork
    /\ (sPc = "returned" /\ sp.dry_run /\ sp.attachment_path # "missing") => result.success
    /\ C2_MissingFails

\* C2 amended: a dry run opens no connection and succeeds whenever the
\* attachment path is absent or names an existing file that can be read; an
\* attachment that is missing or cannot be read fails with an attachment
\* error before any preview or network activity, in both modes.
C2_Amended ==
    /\ C2_DryRunNoNetwork
    /\ (sPc = "returned" /\ sp.dry_run /\ sp.attachment_path \in {"none", "readable"}) =>
           (result.success /\ result.message.text = "dry-run previewed" /\ previews = 1)
    /\ C2_MissingFails
    /\ (sPc = "returned" /\ sp.attachment_path = "unreadable") =>
           (~ result.success /\ result.message.text = "Attachment error"
            /\ previews = 0 /\ connects = 0)

C2_Witness ==
    /\ sPc = "returned"
    /\ ~ sp.dry_run
    /\ sp.max_retries > 0
    /\ sp.attachment_path = "missing"
    /\ ~ result.success
    /\ connects = 0

\* the data rows of a log file, header lines left out
DataRows(content) == SelectSeq(content, LAMBDA line : line.kind = "row")

\* the contacts of the input that satisfy the validation rule
WellFormed(r) == r.Email = <<"a", "@", "b", ".", "c">>

InLoopBody == pc \in {"render", "send", "sending"}

C3_OneRowPerContact ==
    /\ pc \in {"loop", "rate"} => Len(DataRows(log)) = total
    /\ InLoopBody => Len(DataRows(log)) = total - 1
    /\ (pc = "exited" /\ exit_code = 0 /\ rows # <<>>) => Len(DataRows(log)) = Len(rows)
    /\ Len(DataRows(log)) <= Len(rows)
    /\ \A j \in 1..Len(DataRows(log)) :
           /\ DataRows(log)[j].SNo = rows[j].SNo
           /\ DataRows(log)[j].Email = rows[j].Email
           /\ DataRows(log)[j].status = "skipped" <=> ~ WellFormed(rows[j])
    /\ (InLoopBody \/ pc = "rate" \/ sPc # "idle") => WellFormed(row)

\* C3 as stated: one log row per contact in input order, each contact fully
\* processed before the next begins; in dry-run every contact that passes
\* validation is logged previewed, every other is logged skipped and never
\* dispatched.
C3_Original ==
    /\ C3_OneRowPerContact
    /\ ~ args.send =>
           \A j \in 1..Len(DataRows(log)) :
               DataRows(log)[j].status = IF WellFormed(rows[j]) THEN "previewed" ELSE "skipped"

\* C3 amended: as stated, except that in dry-run a contact that passes
\* validation is logged previewed when the attachment file is missing or can
\* be read, and logged failed when the attachment file exists but cannot be
\* read.
C3_Amended ==
    /\ C3_OneRowPerContact
    /\ ~ args.send =>
           \A j \in 1..Len(DataRows(log)) :
               DataRows(log)[j].status =
                   IF ~ WellFormed(rows[j]) THEN "skipped"
                   ELSE IF args.resume = "unreadable" THEN "failed"
                   ELSE "previewed"

C3_Witness ==
    /\ pc = "exited"
    /\ exit_code = 0
    /\ ~ args.send
    /\ Len(rows) = 3
    /\ WellFormed(rows[1]) /\ WellFormed(rows[2]) /\ rows[3].Email = <<>>
    /\ Len(DataRows(log)) = 3
    /\ DataRows(log)[1].status = "previewed"
    /\ DataRows(log)[2].status = "previewed"
    /\ DataRows(log)[3].status = "skipped"

IsPrefix(s, t) == Len(s) <= Len(t) /\ SubSeq(t, 1, Len(s)) = s

C4_Step ==
    /\ IsPrefix(log, log')
    /\ log' # log =>
           /\ Len(DataRows(log')) = Len(DataRows(log)) + 1
           /\ log'[Len(log')].kind = "row"
           /\ Len(log') = Len(log) + (IF log_exists THEN 1 ELSE 2)
           /\ ~ log_exists => log'[Len(log) + 1] = LogHeader

C4_State ==
    (run = 2 /\ pc = "exited") =>
        /\ IsPrefix(first_log, log)
        /\ Len(DataRows(log)) = 2 * Len(DataRows(first_log))

\* C4: the log is append-only: each write keeps the earlier content and adds
\* one data row (after a header only when the file did not exist), so a
\* second run over the same contacts doubles the data rows and keeps the
\* rows of the first run.
C4_AppendOnly == [] C4_State /\ [][C4_Step]_vars

C4_Witness ==
    /\ run = 2
    /\ pc = "exited"
    /\ Len(DataRows(first_log)) = 2
    /\ Len(DataRows(log)) = 4
    /\ Len(log) = 5

CredentialsMissing ==
    \/ env.GMAIL_USER \in {Unset, ""}
    \/ env.GMAIL_APP_PASS \in {Unset, ""}

\* C5: with --send and GMAIL_USER or GMAIL_APP_PASS absent or empty, the run
\* exits with a non-zero status before any contact is read, validated,
\* dispatched or logged: no log row is written, no connection is opened.
C5_AbortWithoutCredentials ==
    (args.send /\ CredentialsMissing) =>
        /\ pc \in {"start", "exited"}
        /\ pc = "exited" => exit_code = 1
        /\ rows = <<>>
        /\ total = 0
        /\ log = <<>>
        /\ sPc = "idle"
        /\ connects = 0

C5_Witness ==
    /\ pc = "exited"
    /\ exit_code = 1
    /\ args.send
    /\ env.GMAIL_USER = "set"
    /\ env.GMAIL_APP_PASS = ""
    /\ Len(args.csv.rows) = 2

\* C6: render_template never fails because of a missing key, whether the
\* placeholder is in the Subject line or in the body: it returns a
\* (subject, body) pair in which the missing field is the empty string.
C6_NeverRaises ==
    pc = "rendered" =>
        /\ rendered.status = "ok"
        /\ rendered.body = FormatMap(
               IF StartsWithSubject(template) THEN LStripTokens(JoinLines(Tail(template)))
                                              ELSE JoinLines(template), row)

\* C7: when the configured attachment file is missing, each contact that
\* passed validation is logged failed with an attachment error, nothing is
\* transmitted for it, and the run goes on to the next contact.
C7_MissingAttachmentIsFailure ==
    args.resume = "missing" =>
        /\ \A j \in 1..Len(DataRows(log)) :
               WellFormed(rows[j]) =>
                   /\ DataRows(log)[j].status = "failed"
                   /\ DataRows(log)[j].message.text = "Attachment error"

\* the indices up to k after which a rate-limit sleep is due
SleepsDue(k, due(_)) == SelectSeq([i \in 1..k |-> i], due)

\* C8 as stated: a sleep follows every contact except the last one, skipped
\* and failed contacts included: n-1 sleeps in a run over n contacts.
C8_Original ==
    pc = "loop" => rate_sleeps = SleepsDue(total, LAMBDA i : i < Len(rows))

\* C8 amended: a sleep follows every contact that passed validation, whether
\* its dispatch succeeded or failed, except the last contact of the list; no
\* sleep follows a contact skipped by validation or the last contact.
C8_Amended ==
    /\ pc = "loop" =>
           rate_sleeps = SleepsDue(total, LAMBDA i : i < Len(rows) /\ WellFormed(rows[i]))
    /\ (pc = "exited" /\ exit_code = 0 /\ rows # <<>>) =>
           rate_sleeps = SleepsDue(Len(rows), LAMBDA i : i < Len(rows) /\ WellFormed(rows[i]))

C8_Witness ==
    /\ pc = "exited"
    /\ exit_code = 0
    /\ Len(rows) = 3
    /\ WellFormed(rows[1]) /\ ~ WellFormed(rows[2]) /\ WellFormed(rows[3])
    /\ DataRows(log)[1].status = "failed"
    /\ rate_sleeps = <<1>>

AllTransient == \A i \in 1..Len(outcomes) : outcomes[i] \in {"SMTPException", "socket.error"}

C9_State ==
    (Live /\ sp.max_retries >= 1) =>
        /\ connects <= sp.max_retries
        /\ Len(sleeps) <= sp.max_retries - 1
        /\ (sPc = "returned" /\ outcomes # <<>> /\ AllTransient) =>
               /\ connects = sp.max_retries
               /\ Len(sleeps) = sp.max_retries - 1
               /\ ~ result.success
               /\ result.message.text = "smtp error after"
               /\ result.message.attempts = sp.max_retries
               /\ result.message.detail = << <<LastOutcome>> >>

\* C9: in live mode with max_retries = N >= 1, when every attempt fails with
\* a transient error there are exactly N connection attempts and N-1 sleeps,
\* the result is a failure carrying the last error and the count N, and the
\* call always returns.
C9_Exhaustion == [] C9_State /\ <>(sPc = "returned")

C9_Witness ==
    /\ sPc = "returned"
    /\ ~ sp.dry_run
    /\ sp.max_retries = 3
    /\ outcomes = <<"SMTPException", "socket.error", "SMTPException">>
    /\ Len(sleeps) = 2
    /\ result.message.attempts = 3

\* C10: in live mode only SMTPException and socket.error are retried: any
\* other error ends the call at once with a failure, without a backoff sleep
\* and without another connection attempt, whatever retries remain.
C10_OtherErrorsAreFatal ==
    Live =>
        \A i \in 1..Len(outcomes) :
            outcomes[i] \notin {"ok", "SMTPException", "socket.error"} =>
                /\ i = Len(outcomes)
                /\ sPc = "returned"
                /\ ~ result.success
                /\ result.message.text = "unexpected error"
                /\ result.message.detail = << <<outcomes[i]>> >>
                /\ connects = i
                /\ Len(sleeps) = i - 1

C10_Witness ==
    /\ sPc = "returned"
    /\ ~ sp.dry_run
    /\ sp.max_retries = 3
    /\ outcomes = <<"socket.error", "ValueError">>
    /\ Len(sleeps) = 1
    /\ ~ result.success

====
